---- MODULE Spec2Model ----
(***************************************************************************)
(* A model of redherring/distractor_env.py: the DMCWrapper adapter, its    *)
(* constructor, step/reset/render, and the three numeric helpers it uses   *)
(* (_flatten_obs, _get_obs masking, _convert_action).                      *)
(*                                                                         *)
(* Numbers.  Observations and pixels are small naturals.  Action values    *)
(* are fixed-point integers counting units of 2^-26, so that 1.0 is One.   *)
(* Every float64 operation of _convert_action is exact on the values the   *)
(* model draws (they need fewer than 53 bits); the float32 results are     *)
(* rounded to 24 significant bits, nearest-even, by RoundF32.              *)
(***************************************************************************)
EXTENDS Integers, Sequences, FiniteSets, TLC

VARIABLES
    phase,      \* "new" | "ready" | "failed": outcome of DMCWrapper.__init__
    cfg,        \* the attributes __init__ stores on self
    seeds,      \* seed given to each of the three spaces, or NoValue
    env,        \* the wrapped control-suite environment (self._env)
    bgLoc,      \* position of the distractor source (self._bg_source)
    ret,        \* what the last call of a method returned or raised
    envLog,     \* the inner env.step calls made by the last call of step
    pre,        \* snapshot of env and bgLoc taken when the last call began
    input,      \* argument of the helper under test (helper specifications)
    output,     \* its result
    applied     \* whether the helper has been applied to input

vars == <<phase, cfg, seeds, env, bgLoc, ret, envLog, pre, input, output, applied>>

wrapperVars == <<phase, cfg, seeds, env, bgLoc, ret, envLog, pre>>
helperVars == <<input, output, applied>>

----------------------------------------------------------------------------
(* Generic helpers *)

RECURSIVE SumSeq(_)
SumSeq(s) == IF s = <<>> THEN 0 ELSE Head(s) + SumSeq(Tail(s))

RECURSIVE Concat(_)
\* np.concatenate(pieces, axis=0) on one-dimensional pieces
Concat(pieces) ==
    IF pieces = <<>> THEN <<>> ELSE Head(pieces) \o Concat(Tail(pieces))

Min(a, b) == IF a <= b THEN a ELSE b

----------------------------------------------------------------------------
(* float32 / float64 arithmetic of _convert_action, in units of 2^-26 *)

One == 2^26
Half == 2^25
Eps == 2^3          \* 2^-23, the float32 spacing just above 1.0

\* number of significant bits of np.float32
F32Precision == 24

\* spacing of float32 values around magnitude m
Ulp(m) ==
    IF m < 2^F32Precision THEN 1
    ELSE LET k == CHOOSE j \in 1..7 :
                      /\ 2^(F32Precision - 1 + j) <= m
                      /\ m < 2^(F32Precision + j)
         IN 2^k

RoundMag(m) ==
    LET u == Ulp(m)
        r == m % u
        b == m - r
    IN IF 2 * r < u THEN b
       ELSE IF 2 * r > u THEN b + u
       ELSE IF (b \div u) % 2 = 0 THEN b ELSE b + u

\* the float32 nearest to n (ties to even)
RoundF32(n) == IF n < 0 THEN -RoundMag(-n) ELSE RoundMag(n)

\* self._norm_action_space: Box(low=-1.0, high=1.0, shape=true.shape)
NormLow == -One
NormHigh == One

\* spaces.Box.contains(x): same shape and low <= x <= high componentwise
BoxContains(low, high, x) ==
    /\ Len(x) = Len(low)
    /\ \A i \in 1..Len(x) : low[i] <= x[i] /\ x[i] <= high[i]

NormContains(dim, x) ==
    /\ Len(x) = dim
    /\ \A i \in 1..Len(x) : NormLow <= x[i] /\ x[i] <= NormHigh

\* one component of _convert_action
\*   true_delta = true.high - true.low            (float32 - float32)
\*   norm_delta = norm.high - norm.low            (float32, exactly 2.0)
\*   action = (action - norm.low) / norm_delta    (float64, exact)
\*   action = action * true_delta + true.low      (float64, exact here)
\*   action = action.astype(np.float32)
ConvertComponent(lo, hi, a) ==
    LET true_delta == RoundF32(hi - lo)
        norm_delta == RoundF32(NormHigh - NormLow)
        quarters == ((a - NormLow) * 4) \div norm_delta
    IN RoundF32((quarters * true_delta) \div 4 + lo)

_convert_action(low, high, action) ==
    [i \in 1..Len(action) |-> ConvertComponent(low[i], high[i], action[i])]

----------------------------------------------------------------------------
(* _flatten_obs.  An observation mapping is the sequence of its values in  *)
(* iteration order.  A value is a scalar or an ndarray; both are kept as a *)
(* sequence of rows: a scalar v as <<<<v>>>>, a 1-D array as one row.      *)

\* ravel in column-major (Fortran) order
RavelColumnMajor(rows) ==
    LET r == Len(rows)
        c == IF r = 0 THEN 0 ELSE Len(rows[1])
    IN [n \in 1..(r * c) |-> rows[((n - 1) % r) + 1][((n - 1) \div r) + 1]]

\* v.ravel(): the elements in row-major (C) order
Ravel(rows) == Concat(rows)

\* flat = np.array([v]) if np.isscalar(v) else v.ravel()
FlatPiece(v) == IF v.kind = "scalar" THEN <<v.rows[1][1]>> ELSE Ravel(v.rows)

\* for v in obs.values(): obs_pieces.append(flat)
\* return np.concatenate(obs_pieces, axis=0)
_flatten_obs(obs) == Concat([k \in 1..Len(obs) |-> FlatPiece(obs[k])])

----------------------------------------------------------------------------
(* _get_obs.  A frame is frame[y][x][c] with channels 1 = red, 2 = green, *)
(* 3 = blue (obs[:, :, 0], obs[:, :, 1], obs[:, :, 2] in the source).     *)

\* the mask with >= in place of >
MaskNonStrict(frame) ==
    [y \in 1..Len(frame) |->
        [x \in 1..Len(frame[y]) |->
            frame[y][x][3] >= frame[y][x][2] /\ frame[y][x][3] >= frame[y][x][1]]]

\* mask = logical_and(obs[:, :, 2] > obs[:, :, 1], obs[:, :, 2] > obs[:, :, 0])
Mask(frame) ==
    [y \in 1..Len(frame) |->
        [x \in 1..Len(frame[y]) |->
            frame[y][x][3] > frame[y][x][2] /\ frame[y][x][3] > frame[y][x][1]]]

\* obs[mask] = bg[mask]
MaskedAssign(frame, mask, bg) ==
    [y \in 1..Len(frame) |->
        [x \in 1..Len(frame[y]) |->
            IF mask[y][x] THEN bg[y][x] ELSE frame[y][x]]]

\* obs.transpose(2, 0, 1).copy(): result[c][y][x] = obs[y][x][c]
Transpose201(img) ==
    [c \in 1..3 |->
        [y \in 1..Len(img) |->
            [x \in 1..Len(img[y]) |-> img[y][x][c]]]]

\* the from_pixels branch of _get_obs, given the rendered frame and, when a
\* distractor type is configured, the image the background source returned
PixelObs(frame, img_source, bg) ==
    IF img_source # "None"
    THEN Transpose201(MaskedAssign(frame, Mask(frame), bg))
    ELSE Transpose201(frame)

----------------------------------------------------------------------------
(* Bounds of the model *)

MaxSeed == 1          \* seeds are 0..MaxSeed
MaxFiles == 1         \* glob matches 0..MaxFiles files
MaxFrameSkip == 3     \* frame_skip is 0..MaxFrameSkip
MaxDim == 2           \* the action spec has 1..MaxDim components
MaxPhys == 2          \* physics states are 0..MaxPhys
EpisodeLen == 2       \* the task's time limit, in environment steps
TotalFrames == 2      \* frames the distractor source cycles through

\* (height, width) pairs the wrapper is built with
Shapes2d == {<<1, 2>>}

\* values a caller may pass as one action component: inside and outside [-1, 1]
ActionValues == {-2 * One, -One, One}

Actions == UNION {[1..n -> ActionValues] : n \in 1..MaxDim}

\* (minimum, maximum) of the environment's BoundedArray action spec, already
\* float32 as spaces.Box stores them
ActionBounds == {<<-One, One>>, <<0, One>>, <<-2 * One, One + 3 * Eps>>}

DistractorTypes == {"None", "color", "noise", "images", "video", "other"}

\* task_kwargs: None, a dict without 'random', or a dict with 'random'
TaskKwargs ==
    {[is_none |-> TRUE, has_random |-> FALSE, random |-> 0],
     [is_none |-> FALSE, has_random |-> FALSE, random |-> 0]}
    \cup {[is_none |-> FALSE, has_random |-> TRUE, random |-> r] : r \in 0..MaxSeed}

----------------------------------------------------------------------------
(* The control-suite environment behind local_dm_control_suite.load, after *)
(* the dm_env interface: reset() gives a FIRST time step with no reward    *)
(* and no discount; step() gives MID time steps until the time limit,      *)
(* where it gives a LAST one, and the step() after a LAST one resets.      *)

NoValue == [none |-> TRUE, val |-> 0]
Value(v) == [none |-> FALSE, val |-> v]

\* time_step.observation: a mapping with a scalar, a 1-D and a 2-D entry
Observation(phys) ==
    << [kind |-> "scalar", rows |-> << <<phys>> >>],
       [kind |-> "array", rows |-> << <<phys + 1, phys + 2>> >>],
       [kind |-> "array", rows |-> << <<10, 11>>, <<12, 13 + phys>> >>] >>

RewardOf(phys) == phys

NoEnv == [loaded |-> FALSE, physics |-> 0, t |-> 0, reset_next |-> TRUE]

EnvLoad == [loaded |-> TRUE, physics |-> 0, t |-> 0, reset_next |-> TRUE]

EnvReset(e) ==
    [env |-> [e EXCEPT !.physics = 0, !.t = 0, !.reset_next = FALSE],
     ts |-> [step_type |-> "FIRST", reward |-> NoValue, discount |-> NoValue,
             observation |-> Observation(0)]]

EnvStep(e, action) ==
    IF e.reset_next THEN EnvReset(e)
    ELSE LET p == (e.physics + 1) % (MaxPhys + 1)
             last == e.t + 1 >= EpisodeLen
         IN [env |-> [e EXCEPT !.physics = p, !.t = e.t + 1, !.reset_next = last],
             ts |-> [step_type |-> IF last THEN "LAST" ELSE "MID",
                     reward |-> Value(RewardOf(p)),
                     discount |-> Value(1),
                     observation |-> Observation(p)]]

\* time_step.last()
Last(ts) == ts.step_type = "LAST"

\* physics.render(height, width, camera_id): an image of the current state
Render(phys, shape2d) ==
    [y \in 1..shape2d[1] |->
        [x \in 1..shape2d[2] |->
            << (phys + x) % 2, y % 2, (phys + 2 * x + y) % 3 >>]]

\* self._bg_source.get_image(): the frame at the source's position; the
\* source then moves on
BgImage(loc, shape2d) ==
    [y \in 1..shape2d[1] |->
        [x \in 1..shape2d[2] |->
            [ch \in 1..3 |-> 100 * ch + 10 * loc + 2 * y + x]]]

BgAdvance(loc) == (loc + 1) % TotalFrames

----------------------------------------------------------------------------
(* DMCWrapper.__init__ *)

NoCfg ==
    [args |-> [task_kwargs |-> [is_none |-> TRUE, has_random |-> FALSE, random |-> 0],
               distractor_type |-> "None", nfiles |-> 0],
     error |-> "", from_pixels |-> FALSE, frame_skip |-> 0, img_source |-> "None",
     bg_source |-> "none", shape2d |-> <<0, 0>>, low |-> <<>>, high |-> <<>>]

NoSeeds == [true_action |-> NoValue, norm_action |-> NoValue, observation |-> NoValue]

\* assert 'random' in task_kwargs: '' when it passes, else what is raised
\* ('random' in None is a TypeError)
SeedCheck(task_kwargs) ==
    IF task_kwargs.is_none THEN "TypeError"
    ELSE IF ~task_kwargs.has_random THEN "AssertionError"
    ELSE ""

\* the background block without the file check and the final else
BgSourceNoElse(distractor_type, nfiles) ==
    IF distractor_type = "None" THEN [error |-> "", source |-> "none"]
    ELSE IF distractor_type = "color" THEN [error |-> "", source |-> "color"]
    ELSE IF distractor_type = "noise" THEN [error |-> "", source |-> "noise"]
    ELSE IF distractor_type = "video" THEN [error |-> "", source |-> "video"]
    ELSE [error |-> "", source |-> "images"]

\* the "# background" block: the source built, or what is raised
BgSource(distractor_type, nfiles) ==
    IF distractor_type = "None" THEN [error |-> "", source |-> "none"]
    ELSE IF distractor_type = "color" THEN [error |-> "", source |-> "color"]
    ELSE IF distractor_type = "noise" THEN [error |-> "", source |-> "noise"]
    ELSE IF nfiles = 0 THEN [error |-> "AssertionError", source |-> "none"]
    ELSE IF distractor_type = "images" THEN [error |-> "", source |-> "images"]
    ELSE IF distractor_type = "video" THEN [error |-> "", source |-> "video"]
    ELSE [error |-> "Exception", source |-> "none"]

\* seeding with the default of task_kwargs.get('random', 1) whatever is given
SeedDefault(task_kwargs) ==
    [true_action |-> Value(1), norm_action |-> Value(1), observation |-> Value(1)]

\* self.seed(seed=task_kwargs.get('random', 1)) seeds the three spaces
seed(task_kwargs) ==
    LET s == IF task_kwargs.has_random THEN task_kwargs.random ELSE 1
    IN [true_action |-> Value(s), norm_action |-> Value(s), observation |-> Value(s)]

\* __init__(...): the attributes it leaves on self and whether it returned
\* ("ready") or raised ("failed", with what in cfg.error).  dim and bounds
\* are the shape, minimum and maximum of self._env.action_spec().
__init__(task_kwargs, distractor_type, nfiles, from_pixels, frame_skip, shape2d, dim, bounds) ==
    LET args == [task_kwargs |-> task_kwargs,
                 distractor_type |-> distractor_type, nfiles |-> nfiles]
        check == SeedCheck(task_kwargs)
        bg == BgSource(distractor_type, nfiles)
        attrs == [NoCfg EXCEPT !.args = args,
                               !.from_pixels = from_pixels,
                               !.frame_skip = frame_skip,
                               !.img_source = distractor_type,
                               !.shape2d = shape2d]
        spaces == [attrs EXCEPT !.low = [i \in 1..dim |-> bounds[1]],
                                !.high = [i \in 1..dim |-> bounds[2]]]
    IN IF check # ""
       THEN [phase |-> "failed", env |-> NoEnv, seeds |-> NoSeeds,
             cfg |-> [NoCfg EXCEPT !.args = args, !.error = check]]
       ELSE IF bg.error # ""
       THEN [phase |-> "failed", env |-> EnvLoad, seeds |-> NoSeeds,
             cfg |-> [spaces EXCEPT !.error = bg.error]]
       ELSE [phase |-> "ready", env |-> EnvLoad, seeds |-> seed(task_kwargs),
             cfg |-> [spaces EXCEPT !.bg_source = bg.source]]

Construct ==
    /\ phase = "new"
    /\ \E task_kwargs \in TaskKwargs, distractor_type \in DistractorTypes,
          nfiles \in 0..MaxFiles, from_pixels \in BOOLEAN,
          frame_skip \in 0..MaxFrameSkip, shape2d \in Shapes2d,
          dim \in 1..MaxDim, bounds \in ActionBounds :
        LET r == __init__(task_kwargs, distractor_type, nfiles, from_pixels,
                          frame_skip, shape2d, dim, bounds)
        IN /\ phase' = r.phase
           /\ cfg' = r.cfg
           /\ env' = r.env
           /\ seeds' = r.seeds
    /\ UNCHANGED <<bgLoc, ret, envLog, pre, helperVars>>

----------------------------------------------------------------------------
(* DMCWrapper._get_obs, step, reset, render *)

NoTimeStep ==
    [step_type |-> "unbound", reward |-> NoValue, discount |-> NoValue,
     observation |-> <<>>]

NoRet ==
    [op |-> "none", raised |-> "", line |-> 0, action |-> <<>>, obs |-> <<>>,
     reward |-> 0, done |-> FALSE, internal_state |-> 0, discount |-> NoValue]

\* _get_obs(time_step): the observation, and where the distractor source is
\* afterwards
_get_obs(c, e, loc, time_step) ==
    IF c.from_pixels
    THEN IF c.img_source # "None"
         THEN [obs |-> PixelObs(Render(e.physics, c.shape2d), c.img_source,
                                BgImage(loc, c.shape2d)),
               loc |-> BgAdvance(loc)]
         ELSE [obs |-> PixelObs(Render(e.physics, c.shape2d), c.img_source, <<>>),
               loc |-> loc]
    ELSE [obs |-> _flatten_obs(time_step.observation), loc |-> loc]

\* time_step.reward or 0
OrZero(v) == IF v.none \/ v.val = 0 THEN 0 ELSE v.val

LoopStart(e) ==
    [env |-> e, reward |-> 0, done |-> FALSE, time_step |-> NoTimeStep, log |-> <<>>]

\* one iteration of the loop body, up to the test of done
LoopBody(st, action) ==
    LET r == EnvStep(st.env, action)
    IN [env |-> r.env,
        reward |-> st.reward + OrZero(r.ts.reward),
        done |-> Last(r.ts),
        time_step |-> r.ts,
        log |-> Append(st.log, [action |-> action, ts |-> r.ts])]

\* the loop without its break
RECURSIVE RunLoopNoBreak(_, _, _)
RunLoopNoBreak(st, action, remaining) ==
    IF remaining = 0 THEN st
    ELSE RunLoopNoBreak(LoopBody(st, action), action, remaining - 1)

\* the loop breaking before it adds the last reward
RECURSIVE RunLoopDropLast(_, _, _)
RunLoopDropLast(st, action, remaining) ==
    IF remaining = 0 THEN st
    ELSE LET st2 == LoopBody(st, action)
         IN IF st2.done THEN [st2 EXCEPT !.reward = st.reward]
            ELSE RunLoopDropLast(st2, action, remaining - 1)

\* the loop keeping the first time step instead of the latest
RECURSIVE RunLoopKeepFirst(_, _, _)
RunLoopKeepFirst(st, action, remaining) ==
    IF remaining = 0 THEN st
    ELSE LET b == LoopBody(st, action)
             st2 == IF st.log = <<>> THEN b ELSE [b EXCEPT !.time_step = st.time_step]
         IN IF st2.done THEN st2 ELSE RunLoopKeepFirst(st2, action, remaining - 1)

\* for _ in range(self._frame_skip): ...; if done: break
RECURSIVE RunLoop(_, _, _)
RunLoop(st, action, remaining) ==
    IF remaining = 0 THEN st
    ELSE LET st2 == LoopBody(st, action)
         IN IF st2.done THEN st2 ELSE RunLoop(st2, action, remaining - 1)

Raise(op, what, line, action, e, loc) ==
    [env |-> e, loc |-> loc, log |-> <<>>,
     ret |-> [NoRet EXCEPT !.op = op, !.raised = what, !.line = line,
                           !.action = action]]

\* lines 177-188 of step: the loop, the observation and the return value
StepBody(c, e, loc, action, converted) ==
    LET internal_state == e.physics
        st == RunLoop(LoopStart(e), converted, c.frame_skip)
    IN IF st.time_step.step_type = "unbound"
       THEN [Raise("step", "UnboundLocalError", 186, action, e, loc)
                EXCEPT !.log = st.log]
       ELSE LET o == _get_obs(c, st.env, loc, st.time_step)
            IN [env |-> st.env, loc |-> o.loc, log |-> st.log,
                ret |-> [NoRet EXCEPT
                           !.op = "step",
                           !.action = action,
                           !.obs = o.obs,
                           !.reward = st.reward,
                           !.done = st.done,
                           !.internal_state = internal_state,
                           !.discount = st.time_step.discount]]

\* step with its two assert statements stripped
step_unchecked(c, e, loc, action) ==
    IF Len(action) # Len(c.low)
    THEN Raise("step", "ValueError", 152, action, e, loc)
    ELSE StepBody(c, e, loc, action, _convert_action(c.low, c.high, action))

\* step(action): the state it leaves and what it returns or raises
step(c, e, loc, action) ==
    IF ~NormContains(Len(c.low), action)
    THEN Raise("step", "AssertionError", 174, action, e, loc)
    ELSE LET converted == _convert_action(c.low, c.high, action)
         IN IF ~BoxContains(c.low, c.high, converted)
            THEN Raise("step", "AssertionError", 176, action, e, loc)
            ELSE StepBody(c, e, loc, action, converted)

Step ==
    /\ phase = "ready"
    /\ \E action \in Actions :
        LET r == step(cfg, env, bgLoc, action)
        IN /\ env' = r.env
           /\ bgLoc' = r.loc
           /\ envLog' = r.log
           /\ ret' = r.ret
    /\ pre' = [env |-> env, bgLoc |-> bgLoc]
    /\ UNCHANGED <<phase, cfg, seeds, helperVars>>

\* reset(): time_step = self._env.reset(); obs = self._get_obs(time_step)
Reset ==
    /\ phase = "ready"
    /\ LET r == EnvReset(env)
           o == _get_obs(cfg, r.env, bgLoc, r.ts)
       IN /\ env' = r.env
          /\ bgLoc' = o.loc
          /\ ret' = [NoRet EXCEPT !.op = "reset", !.obs = o.obs]
    /\ envLog' = <<>>
    /\ pre' = [env |-> env, bgLoc |-> bgLoc]
    /\ UNCHANGED <<phase, cfg, seeds, helperVars>>

\* render(mode='rgb_array'): the pixel observation transposed back to
\* (height, width, channel), or the plain rendering in non-pixel mode
Render120(obs) ==
    [y \in 1..Len(obs[1]) |->
        [x \in 1..Len(obs[1][y]) |-> [ch \in 1..3 |-> obs[ch][y][x]]]]

RenderCall ==
    /\ phase = "ready"
    /\ IF cfg.from_pixels
       THEN LET o == _get_obs(cfg, env, bgLoc, NoTimeStep)
            IN /\ bgLoc' = o.loc
               /\ ret' = [NoRet EXCEPT !.op = "render", !.obs = Render120(o.obs)]
       ELSE /\ bgLoc' = bgLoc
            /\ ret' = [NoRet EXCEPT !.op = "render",
                                    !.obs = Render(env.physics, cfg.shape2d)]
    /\ envLog' = <<>>
    /\ pre' = [env |-> env, bgLoc |-> bgLoc]
    /\ UNCHANGED <<phase, cfg, seeds, env, helperVars>>

\* The constructor on its own: every way of calling it.
IdleWrapper ==
    /\ phase = "new"
    /\ cfg = NoCfg
    /\ seeds = NoSeeds
    /\ env = NoEnv
    /\ bgLoc = 0
    /\ ret = NoRet
    /\ envLog = <<>>
    /\ pre = [env |-> NoEnv, bgLoc |-> 0]

IdleHelper ==
    /\ input = <<>>
    /\ output = <<>>
    /\ applied = FALSE

InitNew == IdleWrapper /\ IdleHelper

SpecInit == InitNew /\ [][Construct]_vars

\* The constructed wrapper: Init is what __init__ leaves when it returns,
\* over a seeded task and one distractor type of each kind of source.
RunTaskKwargs == {[is_none |-> FALSE, has_random |-> TRUE, random |-> 0]}
RunDistractorTypes == {"None", "noise", "video"}
RunActionBounds == {<<-One, One>>, <<-2 * One, One + 3 * Eps>>}

Init ==
    /\ \E task_kwargs \in RunTaskKwargs, distractor_type \in RunDistractorTypes,
          from_pixels \in BOOLEAN, frame_skip \in 0..MaxFrameSkip,
          shape2d \in Shapes2d, dim \in 1..MaxDim, bounds \in RunActionBounds :
        LET r == __init__(task_kwargs, distractor_type, MaxFiles, from_pixels,
                          frame_skip, shape2d, dim, bounds)
        IN /\ r.phase = "ready"
           /\ phase = r.phase
           /\ cfg = r.cfg
           /\ env = r.env
           /\ seeds = r.seeds
    /\ bgLoc = 0
    /\ ret = NoRet
    /\ envLog = <<>>
    /\ pre = [env |-> EnvLoad, bgLoc |-> 0]
    /\ IdleHelper

Next == Step \/ Reset \/ RenderCall

Spec == Init /\ [][Next]_vars

----------------------------------------------------------------------------
(* The helpers on their own, over bounded inputs *)

MaxEntries == 2       \* an observation mapping has 1..MaxEntries entries
MaxVal == 1           \* entries are filled from 10 * (0..MaxVal) upwards
MaxChan == 2          \* a rendered channel value is 0..MaxChan

\* (rows, columns) of the ndarray entries; one row stands for a 1-D array
ArrayShapes == {<<1, 0>>, <<1, 2>>, <<2, 2>>, <<3, 2>>}

Filled(shape, base) ==
    [i \in 1..shape[1] |-> [j \in 1..shape[2] |-> base + (i - 1) * shape[2] + j]]

Entries ==
    {[kind |-> "scalar", rows |-> << <<10 * b>> >>] : b \in 0..MaxVal}
    \cup {[kind |-> "array", rows |-> Filled(sh, 10 * b)] :
              sh \in ArrayShapes, b \in 0..MaxVal}

ObsMappings == UNION {[1..n -> Entries] : n \in 1..MaxEntries}

InitFlatten ==
    /\ IdleWrapper
    /\ input \in ObsMappings
    /\ output = <<>>
    /\ applied = FALSE

ApplyFlatten ==
    /\ ~applied
    /\ output' = _flatten_obs(input)
    /\ applied' = TRUE
    /\ UNCHANGED <<input, wrapperVars>>

SpecFlatten == InitFlatten /\ [][ApplyFlatten]_vars

PixelShapes == {<<1, 2>>, <<2, 1>>}

Pixels == [1..3 -> 0..MaxChan]

Frames(shape2d) == [1..shape2d[1] -> [1..shape2d[2] -> Pixels]]

InitPixels ==
    /\ IdleWrapper
    /\ \E shape2d \in PixelShapes, loc \in 0..(TotalFrames - 1) :
        \E frame \in Frames(shape2d), img_source \in {"None", "noise", "video"} :
            input = [frame |-> frame, img_source |-> img_source,
                     bg |-> BgImage(loc, shape2d)]
    /\ output = <<>>
    /\ applied = FALSE

ApplyPixelObs ==
    /\ ~applied
    /\ output' = PixelObs(input.frame, input.img_source, input.bg)
    /\ applied' = TRUE
    /\ UNCHANGED <<input, wrapperVars>>

SpecPixels == InitPixels /\ [][ApplyPixelObs]_vars

\* float32 bounds and normalized action values _convert_action is tried on
ConvertLows == {-2 * One, -One, 0}
ConvertHighs == {One, One + Eps, One + 3 * Eps, 2 * One}
ConvertActions == {-One, -Half, 0, Half, One}

InitConvert ==
    /\ IdleWrapper
    /\ \E dim \in 1..MaxDim :
        \E low \in [1..dim -> ConvertLows], high \in [1..dim -> ConvertHighs],
           action \in [1..dim -> ConvertActions] :
            input = [low |-> low, high |-> high, action |-> action]
    /\ output = <<>>
    /\ applied = FALSE

ApplyConvert ==
    /\ ~applied
    /\ output' = _convert_action(input.low, input.high, input.action)
    /\ applied' = TRUE
    /\ UNCHANGED <<input, wrapperVars>>

SpecConvert == InitConvert /\ [][ApplyConvert]_vars

----------------------------------------------------------------------------
(* Properties *)

\* the environment after n calls of step(a), none skipped
RECURSIVE EnvAfter(_, _, _)
EnvAfter(e, a, n) == IF n = 0 THEN e ELSE EnvAfter(EnvStep(e, a).env, a, n - 1)

\* the time step the i-th of those calls returns
TimeStepAt(e, a, i) == EnvStep(EnvAfter(e, a, i - 1), a).ts

\* index of the first of n such time steps that is last, or n + 1
FirstLast(e, a, n) ==
    IF \E i \in 1..n : Last(TimeStepAt(e, a, i))
    THEN CHOOSE i \in 1..n :
            /\ Last(TimeStepAt(e, a, i))
            /\ \A j \in 1..(i - 1) : ~Last(TimeStepAt(e, a, j))
    ELSE n + 1

RewardValue(ts) == IF ts.reward.none THEN 0 ELSE ts.reward.val

\* the last call was a step whose action passed both assertions of step
StepAccepted ==
    /\ ret.op = "step"
    /\ ~(ret.raised = "AssertionError")

\* the last call was a step that returned
StepReturned == ret.op = "step" /\ ret.raised = ""

ConvertedArg == _convert_action(cfg.low, cfg.high, ret.action)

\* C1: in pixel mode with a distractor type configured, every pixel whose
\* blue channel is strictly greater than its red and its green channel has
\* all its channels taken from the distractor image at the same position,
\* and every other pixel is as rendered (the result is channel-first).
BackgroundPixelsReplaced ==
    (applied /\ input.img_source # "None") =>
        /\ Len(output) = 3
        /\ \A ch \in 1..3 :
            /\ Len(output[ch]) = Len(input.frame)
            /\ \A y \in 1..Len(input.frame) :
                /\ Len(output[ch][y]) = Len(input.frame[y])
                /\ \A x \in 1..Len(input.frame[y]) :
                    LET p == input.frame[y][x]
                    IN output[ch][y][x] =
                        IF p[3] > p[1] /\ p[3] > p[2]
                        THEN input.bg[y][x][ch] ELSE p[ch]

\* a frame with a replaced pixel next to a pixel whose blue only ties
BackgroundPixelsReplacedWitness ==
    /\ applied
    /\ input.img_source # "None"
    /\ \E y \in 1..Len(input.frame) : \E x \in 1..Len(input.frame[y]) :
        LET p == input.frame[y][x]
        IN p[3] > p[1] /\ p[3] > p[2] /\ output[3][y][x] = input.bg[y][x][3]
    /\ \E y \in 1..Len(input.frame) : \E x \in 1..Len(input.frame[y]) :
        LET p == input.frame[y][x]
        IN p[3] = p[2] /\ p[3] > p[1] /\ output[3][y][x] = p[3]

\* C2: the converted action lies in [low, high] componentwise, so the
\* assertion of step that the true action space contains it holds.
ConvertedActionContained ==
    applied => BoxContains(input.low, input.high, output)

\* C3: a step with frame_skip >= 1 whose action is accepted returns after
\* min(frame_skip, k) inner steps, k the index of the first inner time step
\* that is last: at least one, at most frame_skip, each with the same
\* converted action, and none after a time step that is last.
InnerStepCount ==
    (StepAccepted /\ cfg.frame_skip >= 1) =>
        LET a == ConvertedArg
            n == Len(envLog)
        IN /\ ret.raised = ""
           /\ n = Min(cfg.frame_skip, FirstLast(pre.env, a, cfg.frame_skip))
           /\ 1 <= n /\ n <= cfg.frame_skip
           /\ \A i \in 1..n : envLog[i].action = a
           /\ \A i \in 1..(n - 1) : ~Last(envLog[i].ts)
           /\ env = EnvAfter(pre.env, a, n)

\* a step that stopped early, after two of three inner steps
InnerStepCountWitness ==
    /\ StepReturned
    /\ cfg.frame_skip >= 3
    /\ Len(envLog) = 2
    /\ Last(envLog[2].ts)

\* C4: the reward step returns is the sum of the rewards of the inner time
\* steps it executed, a missing reward counting 0, and done is last() of the
\* final one; the steps it skipped add nothing.
RewardIsSumOfExecuted ==
    StepReturned =>
        LET a == ConvertedArg
            n == Len(envLog)
        IN /\ n >= 1
           /\ ret.reward =
                SumSeq([i \in 1..n |-> RewardValue(TimeStepAt(pre.env, a, i))])
           /\ ret.done = Last(TimeStepAt(pre.env, a, n))

\* a step whose first inner time step had no reward, whose later ones had
\* one, and whose last one ended the episode
RewardIsSumOfExecutedWitness ==
    /\ StepReturned
    /\ Len(envLog) >= 3
    /\ envLog[1].ts.reward.none
    /\ ret.reward > 0
    /\ ret.done

\* C5: a wrapper is constructed only with distractor type None, color,
\* noise, images or video, its background source being the one of that type
\* (none for None); images and video fail when no file matches, and every
\* other type fails.
BackgroundStrategySelected ==
    phase # "new" =>
        LET t == cfg.args.distractor_type
            nf == cfg.args.nfiles
        IN /\ phase = "ready" =>
                /\ t \in {"None", "color", "noise", "images", "video"}
                /\ cfg.bg_source = (IF t = "None" THEN "none" ELSE t)
                /\ cfg.img_source = t
                /\ t \in {"images", "video"} => nf > 0
           /\ t \notin {"None", "color", "noise", "images", "video"} =>
                phase = "failed"
           /\ (t \in {"images", "video"} /\ nf = 0) => phase = "failed"

\* an unknown type failing although a seed is given and files match
BackgroundStrategySelectedWitness ==
    /\ phase = "failed"
    /\ cfg.args.task_kwargs.has_random
    /\ cfg.args.distractor_type = "other"
    /\ cfg.args.nfiles > 0
    /\ cfg.error = "Exception"

\* number of elements of an entry of an observation mapping
EntrySize(v) ==
    IF v.kind = "scalar" THEN 1 ELSE Len(v.rows) * Len(v.rows[1])

\* number of elements of the entries before the k-th
EntryOffset(obs, k) == SumSeq([m \in 1..(k - 1) |-> EntrySize(obs[m])])

\* C6: the flattened observation is one-dimensional, as long as the sizes
\* of the entries add up to, and holds element (i, j) of the k-th entry at
\* position offset(k) + (i - 1) * columns + j: entries in iteration order,
\* each in row-major order, nothing dropped, duplicated or reordered.
FlattenIsConcatenation ==
    applied =>
        /\ Len(output) = SumSeq([k \in 1..Len(input) |-> EntrySize(input[k])])
        /\ \A n \in 1..Len(output) : output[n] \in Int
        /\ \A k \in 1..Len(input) :
            \A i \in 1..Len(input[k].rows) :
                \A j \in 1..Len(input[k].rows[i]) :
                    output[EntryOffset(input, k)
                           + (i - 1) * Len(input[k].rows[i]) + j]
                        = input[k].rows[i][j]

\* a mapping of a scalar followed by an array of several rows and columns
FlattenIsConcatenationWitness ==
    /\ applied
    /\ Len(input) = 2
    /\ input[1].kind = "scalar"
    /\ input[2].kind = "array"
    /\ Len(input[2].rows) = 3
    /\ Len(input[2].rows[1]) = 2
    /\ Len(output) = 7
    /\ output[1] # output[2]

\* C7: without 'random' in task_kwargs (None included) the constructor
\* fails before the environment is loaded, and a constructed wrapper has its
\* three spaces seeded with task_kwargs['random'].
SeedRequired ==
    phase # "new" =>
        LET kw == cfg.args.task_kwargs
        IN /\ ~kw.has_random => (phase = "failed" /\ ~env.loaded)
           /\ phase = "ready" =>
                /\ kw.has_random
                /\ seeds.true_action = Value(kw.random)
                /\ seeds.norm_action = Value(kw.random)
                /\ seeds.observation = Value(kw.random)

\* a wrapper constructed with seed 0, which is not the default of get
SeedRequiredWitness ==
    /\ phase = "ready"
    /\ cfg.args.task_kwargs.random = 0
    /\ seeds.observation = Value(0)
    /\ env.loaded

\* C8: a step whose action is not in the normalized action space raises the
\* assertion of line 174 and leaves the environment and the distractor
\* source as they were, with no inner step made.
InvalidActionRejected ==
    (ret.op = "step" /\ ~NormContains(Len(cfg.low), ret.action)) =>
        /\ ret.raised = "AssertionError"
        /\ ret.line = 174
        /\ envLog = <<>>
        /\ env = pre.env
        /\ bgLoc = pre.bgLoc

\* an out-of-range action of the right shape rejected in mid-episode
InvalidActionRejectedWitness ==
    /\ ret.op = "step"
    /\ Len(ret.action) = Len(cfg.low)
    /\ \E i \in 1..Len(ret.action) : ret.action[i] < NormLow
    /\ ret.raised = "AssertionError"
    /\ env.t > 0
    /\ ~env.reset_next

\* C9: extra['internal_state'] is the physics state before the first inner
\* step, and extra['discount'] and the observation are those of the last
\* inner time step executed.
ExtraReportsTwoMoments ==
    StepReturned =>
        LET a == ConvertedArg
            n == Len(envLog)
            final == TimeStepAt(pre.env, a, n)
            after == EnvAfter(pre.env, a, n)
        IN /\ n >= 1
           /\ ret.internal_state = pre.env.physics
           /\ ret.discount = final.discount
           /\ ~cfg.from_pixels => ret.obs = _flatten_obs(final.observation)
           /\ cfg.from_pixels =>
                ret.obs = PixelObs(Render(after.physics, cfg.shape2d),
                                   cfg.img_source,
                                   BgImage(pre.bgLoc, cfg.shape2d))

\* a step over several inner steps whose physics state moved and whose first
\* and last time steps differ in discount and observation
ExtraReportsTwoMomentsWitness ==
    /\ StepReturned
    /\ Len(envLog) >= 2
    /\ ret.internal_state # env.physics
    /\ envLog[1].ts.discount # ret.discount
    /\ envLog[1].ts.observation # envLog[Len(envLog)].ts.observation

====
